---- MODULE Spec2Model ----
(***************************************************************************)
(* Model of backend/storages.py: the per-user storage registry             *)
(* (StorageOps and the three /storages routes of init_storages_api).       *)
(*                                                                         *)
(* Strings that the code takes apart or builds (identifiers, endpoint      *)
(* urls) are sequences of one-character strings; a JSON object / python    *)
(* dict is a function from key to value, so {} is the function with the    *)
(* empty domain and an absent key is a key outside DOMAIN.                 *)
(* Optional[bool] is one of "None", "True", "False".                       *)
(***************************************************************************)
EXTENDS Integers, Sequences, FiniteSets, TLC

VARIABLES
    storages,    \* db["storages"]: the documents, in insertion (natural) order
    oidCounter,  \* the driver's ObjectId counter: ids handed out so far
    seeded,      \* number of documents the collection held at startup
    registered,  \* users that exist (have been provisioned)
    request,     \* the request handled last
    response,    \* the answer it got
    added        \* history: every {"added": id} answer, with caller and payload

vars == <<storages, oidCounter, seeded, registered, request, response, added>>

----------------------------------------------------------------------------
(* Bounds *)

\* documents inserted during one run
MaxDocs == 3

----------------------------------------------------------------------------
(* Values *)

Users == {"u1", "u2"}

\* str(user.id): the canonical text of the UUID4
UuidStr(u) ==
    IF u = "u1"
    THEN <<"1","b","9","d","6","b","c","d","-","b","b","f","d","-",
           "4","b","2","d","-","9","b","5","d","-",
           "a","b","8","d","f","b","b","d","4","b","e","d">>
    ELSE <<"6","f","a","4","5","9","e","a","-","e","e","8","a","-",
           "4","c","a","4","-","8","9","4","e","-",
           "d","b","7","7","e","1","6","0","3","5","5","e">>

EmptyDict == [k \in {} |-> 0]

Merge(f, g) ==
    [k \in (DOMAIN f) \cup (DOMAIN g) |-> IF k \in DOMAIN f THEN f[k] ELSE g[k]]

Min(a, b) == IF a <= b THEN a ELSE b

----------------------------------------------------------------------------
(* bson.objectid.ObjectId *)

OidBytes == 12
OidChars == 24

HexDigits == <<"0","1","2","3","4","5","6","7","8","9","a","b","c","d","e","f">>
HexUpper  == <<"0","1","2","3","4","5","6","7","8","9","A","B","C","D","E","F">>

IsHexChar(c) == \E v \in 1..16 : HexDigits[v] = c \/ HexUpper[v] = c

HexVal(c) == (CHOOSE v \in 1..16 : HexDigits[v] = c \/ HexUpper[v] = c) - 1

\* timestamp and process-random part of the ids this process generates
OidPrefix == <<96, 31, 138, 44, 9, 205, 78, 1, 35>>

\* ObjectId(): a fresh id, the n-th one of this process
NewObjectId(n) ==
    OidPrefix \o <<(n \div 65536) % 256, (n \div 256) % 256, n % 256>>

\* str(oid): two lowercase hex digits per byte, leading zeros dropped (wrong)
ObjectIdStrNoPad(oid) ==
    LET RECURSIVE cat(_)
        cat(i) == IF i > Len(oid) THEN <<>>
                  ELSE (IF oid[i] < 16 THEN <<HexDigits[oid[i] + 1]>>
                        ELSE <<HexDigits[(oid[i] \div 16) + 1],
                               HexDigits[(oid[i] % 16) + 1]>>) \o cat(i + 1)
    IN cat(1)

\* str(oid): two lowercase hex digits per byte
ObjectIdStr(oid) ==
    [i \in 1..(2 * Len(oid)) |->
        IF i % 2 = 1 THEN HexDigits[(oid[(i + 1) \div 2] \div 16) + 1]
                     ELSE HexDigits[(oid[i \div 2] % 16) + 1]]

IsValidOid(s) == Len(s) = OidChars /\ \A i \in 1..Len(s) : IsHexChar(s[i])

\* ObjectId(uid) that answers "no such id" for a malformed string (wrong)
ObjectIdLenient(s) ==
    IF IsValidOid(s)
    THEN [ok |-> TRUE,
          oid |-> [i \in 1..OidBytes |->
                      16 * HexVal(s[2 * i - 1]) + HexVal(s[2 * i])]]
    ELSE [ok |-> TRUE, oid |-> <<>>]

\* ObjectId(uid): 24 hex digits parsed into 12 bytes, else InvalidId is raised
ObjectId(s) ==
    IF IsValidOid(s)
    THEN [ok |-> TRUE,
          oid |-> [i \in 1..OidBytes |->
                      16 * HexVal(s[2 * i - 1]) + HexVal(s[2 * i])]]
    ELSE [ok |-> FALSE]

----------------------------------------------------------------------------
(* os.path.join(a, b) for two components *)

Sep == "/"

\* a join that always inserts a separator (wrong)
PathJoinAlwaysSep(a, b) ==
    IF Len(b) > 0 /\ b[1] = Sep THEN b ELSE a \o <<Sep>> \o b

PathJoin(a, b) ==
    IF Len(b) > 0 /\ b[1] = Sep THEN b
    ELSE IF Len(a) = 0 \/ a[Len(a)] = Sep THEN a \o b
    ELSE a \o <<Sep>> \o b

----------------------------------------------------------------------------
(* The pydantic models Storage / S3Storage *)

\* an absent is_public becomes "True" (wrong)
S3StorageDefaultsPublic == [is_public |-> "True"]

\* defaults of the optional fields: Optional[bool] without a default is None
S3StorageDefaults == [is_public |-> "None"]

\* a model in which title has a default and is not required (wrong)
S3StorageTitleOptional(p) ==
    IF /\ "user" \in DOMAIN p /\ p.user \in Users
       /\ "endpoint_url" \in DOMAIN p
    THEN [ok |-> TRUE,
          storage |-> Merge(Merge(p, S3StorageDefaults), [title |-> ""])]
    ELSE [ok |-> FALSE]

\* S3Storage(**fields): the model object when the required fields title, user
\* and endpoint_url are there and well-typed (a str field takes any string,
\* the empty one included), a validation error otherwise
S3Storage(p) ==
    IF /\ "title" \in DOMAIN p
       /\ "user" \in DOMAIN p /\ p.user \in Users
       /\ "endpoint_url" \in DOMAIN p
    THEN [ok |-> TRUE, storage |-> Merge(p, S3StorageDefaults)]
    ELSE [ok |-> FALSE]

----------------------------------------------------------------------------
(* StorageOps *)

ListLimit == 1000

\* insert_one(storage.dict()): the driver adds a fresh _id
add_storage_doc(storage) == Merge([_id |-> NewObjectId(oidCounter + 1)], storage)

add_storage(storage) ==
    /\ storages' = Append(storages, add_storage_doc(storage))
    /\ oidCounter' = oidCounter + 1

\* the unfiltered cursor (wrong)
get_storages_all(u) == SubSeq(storages, 1, Min(Len(storages), ListLimit))

\* the cursor without the length bound (wrong)
get_storages_unbounded(u) == SelectSeq(storages, LAMBDA d : d.user = u)

\* find({"user": user.id}).to_list(length=1000)
get_storages(u) ==
    LET found == SelectSeq(storages, LAMBDA d : d.user = u)
    IN SubSeq(found, 1, Min(Len(found), ListLimit))

\* find_one on the identifier alone (wrong)
get_storage_any_owner(oid, u) ==
    LET found == SelectSeq(storages, LAMBDA d : d._id = oid)
    IN IF Len(found) = 0 THEN EmptyDict ELSE found[1]

\* find_one({"_id": oid, "user": user.id}): the document, or None (as {})
get_storage(oid, u) ==
    LET found == SelectSeq(storages, LAMBDA d : d._id = oid /\ d.user = u)
    IN IF Len(found) = 0 THEN EmptyDict ELSE found[1]

default_endpoint_url(endpoint_prefix, u) ==
    PathJoin(endpoint_prefix, UuidStr(u)) \o <<Sep>>

default_storage(endpoint_prefix, u) ==
    S3Storage([endpoint_url |-> default_endpoint_url(endpoint_prefix, u),
               is_public |-> "False", user |-> u, title |-> "default"]).storage

----------------------------------------------------------------------------
(* Inputs *)

DocsUrl == <<"s","3",":","/","/","b","/","d","o","c","s","/">>

Prefixes ==
    { <<"s","3",":","/","/","b">>,
      <<"s","3",":","/","/","b","/">>,
      <<"s","3",":","/","/","b","/","/">>,
      <<>> }

Field(k, S) == { [j \in {k} |-> v] : v \in S }

\* request bodies: the well-formed ones (with either user as the client's
\* owner; title and url non-empty and no flag, or both empty and the flag
\* set), and ones with a required field missing or an owner that is no UUID
Payloads ==
    { Merge(o, q) :
        o \in Field("user", Users),
        q \in { [title |-> "docs", endpoint_url |-> DocsUrl],
                [title |-> "", endpoint_url |-> <<>>, is_public |-> "True"] } }
    \cup
    { [endpoint_url |-> DocsUrl, user |-> "u1"],
      [title |-> "docs", user |-> "u1"],
      [title |-> "docs", endpoint_url |-> DocsUrl],
      [title |-> "docs", endpoint_url |-> DocsUrl, user |-> "not-a-uuid"] }

NotAValidId == <<"n","o","t","-","a","-","v","a","l","i","d","-","i","d">>

\* an id of the right length with a character that is no hex digit
NonHexId == [i \in 1..OidChars |-> IF i = 1 THEN "g" ELSE "0"]

\* identifiers a client may ask for: ids that were or may be handed out,
\* one that never is, and malformed ones
Uids ==
    { ObjectIdStr(NewObjectId(n)) : n \in 1..MaxDocs }
    \cup { [i \in 1..OidChars |-> "F"] }
    \cup { NotAValidId, NonHexId,
           Tail(ObjectIdStr(NewObjectId(1))) }

----------------------------------------------------------------------------
(* Authentication dependency and user registration *)

user_dep(u) == u \in registered

----------------------------------------------------------------------------
(* Operations *)

\* user registration provisions the default storage, once per user
create_storage_for_user(endpoint_prefix, u) ==
    /\ ~ user_dep(u)
    /\ Len(storages) < seeded + MaxDocs
    /\ add_storage(default_storage(endpoint_prefix, u))
    /\ registered' = registered \cup {u}
    /\ request' = [op |-> "create_storage_for_user", user |-> u,
                   endpoint_prefix |-> endpoint_prefix]
    /\ response' = [status |-> "ok", body |-> EmptyDict]
    /\ UNCHANGED <<seeded, added>>

api_get_storages_body(u) ==
    LET results == get_storages(u)
    IN [storages |->
          [i \in 1..Len(results) |->
              [id |-> ObjectIdStr(results[i]._id),
               title |-> results[i].title,
               endpoint_url |-> results[i].endpoint_url]]]

\* GET /storages/
api_get_storages(u) ==
    /\ user_dep(u)
    /\ request' = [op |-> "get_storages", user |-> u]
    /\ response' = [status |-> "ok", body |-> api_get_storages_body(u)]
    /\ UNCHANGED <<storages, oidCounter, seeded, registered, added>>

api_get_storage_response(uid, u) ==
    LET parsed == ObjectId(uid)
    IN IF ~ parsed.ok
       THEN [status |-> "InvalidId", body |-> EmptyDict]
       ELSE LET res == get_storage(parsed.oid, u)
            IN IF res = EmptyDict
               THEN [status |-> "ok", body |-> EmptyDict]
               ELSE [status |-> "ok",
                     body |-> [id |-> uid, title |-> res.title,
                               endpoint_url |-> res.endpoint_url]]

\* GET /storages/{id}
api_get_storage(uid, u) ==
    /\ user_dep(u)
    /\ request' = [op |-> "get_storage", user |-> u, uid |-> uid]
    /\ response' = api_get_storage_response(uid, u)
    /\ UNCHANGED <<storages, oidCounter, seeded, registered, added>>

\* the client's owner is kept (wrong)
api_add_storage_trusting(storage, u) == storage

\* storage.user = user.id
api_add_storage_owned(storage, u) == Merge([user |-> u], storage)

\* POST /storages/
api_add_storage(p, u) ==
    /\ user_dep(u)
    /\ request' = [op |-> "add_storage", user |-> u, payload |-> p]
    /\ IF ~ S3Storage(p).ok
       THEN /\ response' = [status |-> "ValidationError", body |-> EmptyDict]
            /\ UNCHANGED <<storages, oidCounter, seeded, registered, added>>
       ELSE /\ Len(storages) < seeded + MaxDocs
            /\ add_storage(api_add_storage_owned(S3Storage(p).storage, u))
            /\ response' =
                 [status |-> "ok",
                  body |-> [added |-> ObjectIdStr(NewObjectId(oidCounter + 1))]]
            /\ added' = added \cup
                 {[id |-> ObjectIdStr(NewObjectId(oidCounter + 1)), user |-> u,
                   payload |-> p]}
            /\ UNCHANGED <<seeded, registered>>

----------------------------------------------------------------------------
(* Specification *)

Init ==
    /\ storages = <<>>
    /\ oidCounter = 0
    /\ seeded = 0
    /\ registered = {}
    /\ request = [op |-> "none"]
    /\ response = [status |-> "none", body |-> EmptyDict]
    /\ added = {}

Next ==
    \/ \E prefix \in Prefixes, u \in Users : create_storage_for_user(prefix, u)
    \/ \E u \in Users : api_get_storages(u)
    \/ \E uid \in Uids, u \in Users : api_get_storage(uid, u)
    \/ \E p \in Payloads, u \in Users : api_add_storage(p, u)

Spec == Init /\ [][Next]_vars

----------------------------------------------------------------------------
(* A collection that is already large at startup: both users registered,  *)
(* and user u1 holding one entry fewer than the list bound, or exactly as  *)
(* many.                                                                   *)

SeedDoc(i) ==
    Merge([_id |-> NewObjectId(i)],
          IF i <= 2
          THEN default_storage(<<"s","3",":","/","/","b">>,
                               IF i = 1 THEN "u1" ELSE "u2")
          ELSE api_add_storage_owned(
                   S3Storage([title |-> "docs", endpoint_url |-> DocsUrl,
                              user |-> "u1"]).storage, "u1"))

BulkPayloads ==
    { [title |-> "docs", endpoint_url |-> DocsUrl, user |-> "u1"],
      [title |-> "", endpoint_url |-> DocsUrl, user |-> "u1"],
      [title |-> "docs", endpoint_url |-> DocsUrl] }

InitBulk ==
    /\ seeded \in {ListLimit, ListLimit + 1}
    /\ storages = [i \in 1..seeded |-> SeedDoc(i)]
    /\ oidCounter = seeded
    /\ registered = Users
    /\ request = [op |-> "none"]
    /\ response = [status |-> "none", body |-> EmptyDict]
    /\ added = {}

NextBulk ==
    \/ \E u \in Users : api_get_storages(u)
    \/ \E p \in BulkPayloads, u \in Users : api_add_storage(p, u)

SpecBulk == InitBulk /\ [][NextBulk]_vars

----------------------------------------------------------------------------
(* Properties *)

\* C1: when user U2 asks for the identifier of an entry owned by another
\* user, the answer is the empty object {}, and it is the very answer U2
\* gets for a well-formed identifier that no entry of the collection has.
C1_NotOwnedIsAbsent ==
    request.op = "get_storage" =>
        \A i \in 1..Len(storages) :
            ( /\ ObjectId(request.uid).ok
              /\ ObjectId(request.uid).oid = storages[i]._id
              /\ storages[i].user # request.user )
            => /\ response = [status |-> "ok", body |-> EmptyDict]
               /\ LET fresh == [k \in 1..OidChars |-> "F"]
                  IN /\ \A j \in 1..Len(storages) :
                            storages[j]._id # ObjectId(fresh).oid
                     /\ response = api_get_storage_response(fresh, request.user)

C1_Witness ==
    /\ request.op = "get_storage"
    /\ ObjectId(request.uid).ok
    /\ \E i \in 1..Len(storages) :
          /\ storages[i]._id = ObjectId(request.uid).oid
          /\ storages[i].user # request.user
    /\ response.body = EmptyDict

\* C2: the answer to listEntries(U) holds no entry whose owner is not U:
\* every listed id is the id of a document owned by U.
C2_ListOnlyOwn ==
    request.op = "get_storages" =>
        \A k \in 1..Len(response.body.storages) :
            /\ \E i \in 1..Len(storages) :
                  ObjectIdStr(storages[i]._id) = response.body.storages[k].id
            /\ \A i \in 1..Len(storages) :
                  ObjectIdStr(storages[i]._id) = response.body.storages[k].id
                  => storages[i].user = request.user

C2_Witness ==
    /\ request.op = "get_storages"
    /\ Len(response.body.storages) >= 2
    /\ \E i \in 1..Len(storages) : storages[i].user # request.user

\* C3: an entry created by addEntry is persisted with the caller as owner,
\* whatever owner the payload names; every persisted entry has one owner,
\* the caller that created it.
C3_OwnerIsCaller ==
    /\ \A i \in 1..Len(storages) :
          "user" \in DOMAIN storages[i] /\ storages[i].user \in Users
    /\ (request.op \in {"add_storage", "create_storage_for_user"}
        /\ response.status = "ok")
       => storages[Len(storages)].user = request.user
    /\ \A a \in added :
          \A i \in 1..Len(storages) :
              ObjectIdStr(storages[i]._id) = a.id => storages[i].user = a.user

C3_Witness ==
    /\ request.op = "add_storage"
    /\ response.status = "ok"
    /\ request.payload.user # request.user
    /\ storages[Len(storages)].user = request.user

\* C4: once addEntry(P, U) has answered identifier i, getEntry(i, U) answers
\* an entry with that id and the title and endpoint_url of P, in every later
\* state; a getEntry(i, U) that is actually made gets that answer.
C4_AddThenGet ==
    \A a \in added :
        LET expected == [status |-> "ok",
                         body |-> [id |-> a.id, title |-> a.payload.title,
                                   endpoint_url |-> a.payload.endpoint_url]]
        IN /\ api_get_storage_response(a.id, a.user) = expected
           /\ (request.op = "get_storage" /\ request.uid = a.id
               /\ request.user = a.user) => response = expected

C4_Witness ==
    /\ request.op = "get_storage"
    /\ \E a \in added :
          /\ request.uid = a.id /\ request.user = a.user
          /\ response.body # EmptyDict
          /\ response.body.title = a.payload.title
          /\ Len(storages) > 2
          /\ ObjectIdStr(storages[Len(storages)]._id) # a.id

C7_DefaultNormalised ==
    request.op = "create_storage_for_user" =>
        LET mine == SelectSeq(storages, LAMBDA d :
                        d.user = request.user /\ d.title = "default")
            RECURSIVE strip(_)
            strip(x) == IF Len(x) > 0 /\ x[Len(x)] = Sep
                        THEN strip(SubSeq(x, 1, Len(x) - 1)) ELSE x
        IN /\ Len(mine) = 1
           /\ mine[1].is_public = "False"
           /\ mine[1].endpoint_url =
                 strip(request.endpoint_prefix) \o <<Sep>>
                     \o UuidStr(request.user) \o <<Sep>>

\* C7 amended: right after provisioning U with a prefix, exactly one entry
\* of U is titled "default"; it is private and its endpoint_url is
\* prefix + "/" + id + "/" when the prefix is not empty and does not end in
\* a separator, and prefix + id + "/" when it is empty or ends in one.
C7_DefaultJoined ==
    request.op = "create_storage_for_user" =>
        LET mine == SelectSeq(storages, LAMBDA d :
                        d.user = request.user /\ d.title = "default")
            prefix == request.endpoint_prefix
            id == UuidStr(request.user)
        IN /\ Len(mine) = 1
           /\ mine[1].is_public = "False"
           /\ (prefix # <<>> /\ prefix[Len(prefix)] # Sep)
              => mine[1].endpoint_url = prefix \o <<Sep>> \o id \o <<Sep>>
           /\ (prefix = <<>> \/ prefix[Len(prefix)] = Sep)
              => mine[1].endpoint_url = prefix \o id \o <<Sep>>

C7_Witness ==
    /\ request.op = "create_storage_for_user"
    /\ request.endpoint_prefix = <<"s","3",":","/","/","b","/">>
    /\ Len(storages) = 2
    /\ storages[2].endpoint_url =
          <<"s","3",":","/","/","b","/">> \o UuidStr(request.user) \o <<Sep>>

\* C8: listEntries(U) answers exactly min(n, 1000) entries, n being the
\* number of entries U owns: all of them, each with its id, title and
\* endpoint_url, when n <= 1000, and no more than 1000 otherwise.
C8_ListBounded ==
    request.op = "get_storages" =>
        LET own == SelectSeq(storages, LAMBDA d : d.user = request.user)
            listed == response.body.storages
            listedSet == { listed[k] : k \in 1..Len(listed) }
        IN /\ Len(listed) = Min(Len(own), 1000)
           /\ Len(listed) <= 1000
           /\ Len(own) <= 1000 =>
                 \A i \in 1..Len(own) :
                     [id |-> ObjectIdStr(own[i]._id),
                      title |-> own[i].title,
                      endpoint_url |-> own[i].endpoint_url] \in listedSet

C8_Witness ==
    /\ request.op = "get_storages"
    /\ Len(SelectSeq(storages, LAMBDA d : d.user = request.user)) > 1000
    /\ Len(response.body.storages) = 1000
    /\ added # {}

\* C9 as written: an entry created from a payload without is_public is
\* persisted with is_public = false.
C9_DefaultsToFalse ==
    ( /\ request.op = "add_storage"
      /\ response.status = "ok"
      /\ "is_public" \notin DOMAIN request.payload )
    => storages[Len(storages)].is_public = "False"

\* C9 amended: an entry created from a payload without is_public is
\* persisted with is_public = None (null), neither true nor false; every
\* persisted flag is one of true, false, null.
C9_DefaultsToNone ==
    /\ ( /\ request.op = "add_storage"
         /\ response.status = "ok"
         /\ "is_public" \notin DOMAIN request.payload )
       => storages[Len(storages)].is_public = "None"
    /\ \A i \in 1..Len(storages) :
          storages[i].is_public \in {"True", "False", "None"}

C9_Witness ==
    /\ request.op = "add_storage"
    /\ response.status = "ok"
    /\ "is_public" \notin DOMAIN request.payload
    /\ storages[Len(storages)].is_public = "None"

\* C10: a payload with title and endpoint_url and no owner field is accepted
\* and persisted with the caller as owner, and the new identifier is
\* answered, as for a payload that names an owner.
C10_OwnerFieldNotNeeded ==
    ( /\ request.op = "add_storage"
      /\ "title" \in DOMAIN request.payload
      /\ "endpoint_url" \in DOMAIN request.payload
      /\ "user" \notin DOMAIN request.payload )
    => /\ response.status = "ok"
       /\ "added" \in DOMAIN response.body
       /\ storages[Len(storages)].user = request.user

====
